---- MODULE Spec2Model ----
(***************************************************************************)
(* Early decoder of a Terraform module (earlydecoder/load_module.go).      *)
(*                                                                         *)
(* loadModuleFromFile walks the top-level blocks of one parsed file and    *)
(* records, in a decodedModule shared by all the files of a module, the    *)
(* required core versions, the provider requirements, the provider         *)
(* configurations, the resources, the data sources and the module calls.   *)
(* decodeProviderAttribute resolves a `provider` attribute to a            *)
(* ProviderRef.                                                            *)
(*                                                                         *)
(* Go strings are sequences of one-character strings, so that the keys the *)
(* code formats and the prefixes it cuts are computed, not assumed.        *)
(***************************************************************************)
EXTENDS Integers, Sequences, FiniteSets, TLC

VARIABLES
    mod,        \* the *decodedModule every pass mutates
    diags,      \* loadModuleFromFile's local `diags` (its return value)
    pc,         \* "idle": no pass is running; "loop": inside the for loop
    blocks,     \* content.Blocks of the file of the running pass
    contentDiags, \* the diagnostics PartialContent gave for that file
    idx,        \* number of blocks of `blocks` the loop has handled
    hist,       \* every block handled so far, over all passes, each with
                \* the orders its ranges over maps ran in (history)
    attr,       \* decodeProviderAttribute: the attribute's expression
    traversal,  \* decodeProviderAttribute: its local `traversal`
    ref,        \* decodeProviderAttribute: the returned ProviderRef
    rdiags,     \* decodeProviderAttribute: the returned diagnostics
    rpc,        \* decodeProviderAttribute: position in the function
    sequenced,  \* two calls on one module: does the caller sequence them
    calls       \* two calls on one module: each call's block, position,
                \* local variables and local `diags`

vars == <<mod, diags, pc, blocks, contentDiags, idx, hist, attr, traversal, ref,
          rdiags, rpc, sequenced, calls>>
dispatcherVars == <<mod, diags, pc, blocks, contentDiags, idx, hist>>
resolverVars == <<attr, traversal, ref, rdiags, rpc>>
concurrentVars == <<sequenced, calls>>

(***************************************************************************)
(* Bounds of the model.                                                    *)
(***************************************************************************)
MaxSteps == 2      \* blocks handled over all the passes of one behaviour
MaxStrLen == 3     \* length of the quoted strings given to the resolver
MaxSegs == 2       \* segments of the bare traversals given to the resolver
MaxTypeLen == 4    \* length of the type strings given to the inference

(***************************************************************************)
(* Strings.                                                                *)
(***************************************************************************)
Letters == {"a", "b", "c", "d", "e", "f", "g", "h", "i", "j", "k", "l", "m",
            "n", "o", "p", "q", "r", "s", "t", "u", "v", "w", "x", "y", "z"}
Digits == {"0", "1", "2", "3", "4", "5", "6", "7", "8", "9"}

EmptyStr == << >>
aws == <<"a", "w", "s">>
gcp == <<"g", "c", "p">>
east == <<"e", "a", "s", "t">>
vm == <<"v", "m">>
aws_vm_x == <<"a", "w", "s", "_", "v", "m", "_", "x">>
true == <<"t", "r", "u", "e">>
false == <<"f", "a", "l", "s", "e">>
null == <<"n", "u", "l", "l">>

Range(s) == {s[i] : i \in 1..Len(s)}

RECURSIVE Flatten(_)
Flatten(ss) == IF ss = << >> THEN << >> ELSE Head(ss) \o Flatten(Tail(ss))

IsPrefix(s, t) == Len(s) <= Len(t) /\ SubSeq(t, 1, Len(s)) = s

\* Strings of length at most n over the alphabet A.
StringsUpTo(A, n) == UNION {[1..k -> A] : k \in 0..n}

(***************************************************************************)
(* Expressions of the parsed document (hclsyntax), by their syntax.        *)
(*   traversal: a bare reference, aws.east or aws[0]; segs are its steps   *)
(*   template: a quoted string without interpolation; str is its content   *)
(*   number: a number literal; str is its decimal text                     *)
(*   keyword: one of the literals true, false, null; str is the keyword    *)
(*   call: a function call, or any other expression that needs a context   *)
(***************************************************************************)
Root(n) == [kind |-> "root", name |-> n]
Attr(n) == [kind |-> "attr", name |-> n]
Index(n) == [kind |-> "index", name |-> n]

TravExpr(segs) == [kind |-> "traversal", segs |-> segs, str |-> EmptyStr]
StrExpr(s) == [kind |-> "template", segs |-> << >>, str |-> s]
NumExpr(s) == [kind |-> "number", segs |-> << >>, str |-> s]
KwExpr(s) == [kind |-> "keyword", segs |-> << >>, str |-> s]
CallExpr == [kind |-> "call", segs |-> << >>, str |-> EmptyStr]

\* hcl.AbsTraversalForExpr: the expression read as an absolute traversal.
\* A ScopeTraversalExpr gives its traversal; a LiteralValueExpr holding one
\* of the keywords true, false, null gives a traversal whose root is named
\* by the keyword; every other expression is an error.
AbsTraversalForExpr(e) ==
    CASE e.kind = "traversal" -> [err |-> FALSE, trav |-> e.segs]
      [] e.kind = "keyword" -> [err |-> FALSE, trav |-> <<Root(e.str)>>]
      [] OTHER -> [err |-> TRUE, trav |-> << >>]

\* Every diagnostic of the model has severity error.
Diag(summary, detail) ==
    [Severity |-> "error", Summary |-> summary, Detail |-> detail]

HasErrors(ds) == \E i \in 1..Len(ds) : ds[i].Severity = "error"

\* gohcl.DecodeExpression(expr, nil, &string): the expression is evaluated
\* without a context and its value converted to a string. A quoted string
\* gives its content; a number or a bool is converted to its text; null is
\* refused by the conversion to a Go string; a reference or a call cannot be
\* evaluated without a context (one diagnostic) and leaves an unknown value,
\* which the conversion refuses too (a second one). The target is written
\* only on success.
DecodeExpression(e) ==
    CASE e.kind = "template" -> [diags |-> << >>, val |-> e.str]
      [] e.kind = "number" -> [diags |-> << >>, val |-> e.str]
      [] e.kind = "keyword" /\ e.str # null -> [diags |-> << >>, val |-> e.str]
      [] e.kind = "keyword" /\ e.str = null ->
            [diags |-> <<Diag("Unsuitable value type", << >>)>>,
             val |-> EmptyStr]
      [] OTHER ->
            [diags |-> <<Diag("Variables not allowed", << >>),
                         Diag("Unsuitable value type", << >>)>>,
             val |-> EmptyStr]

(***************************************************************************)
(* hclsyntax.ParseTraversalAbs: a string parsed as an absolute traversal:  *)
(* an identifier, then any number of .name, .number (legacy index) and     *)
(* [number] steps.                                                         *)
(***************************************************************************)
IsIdentStart(c) == c \in Letters \cup {"_"}
\* The last position of the run of characters in `cls` that starts at i.
RECURSIVE RunEnd(_, _, _)
RunEnd(s, i, cls) ==
    IF i + 1 <= Len(s) /\ s[i + 1] \in cls THEN RunEnd(s, i + 1, cls) ELSE i

\* The last position of the number literal (digits, optional fraction)
\* that starts at i.
NumberEnd(s, i) ==
    LET j == RunEnd(s, i, Digits)
    IN IF j + 2 <= Len(s) /\ s[j + 1] = "." /\ s[j + 2] \in Digits
       THEN RunEnd(s, j + 2, Digits)
       ELSE j

\* A failed parse returns the steps it had read.
ParseFail(acc) == [err |-> TRUE, trav |-> acc]

RECURSIVE ParseSteps(_, _, _)
ParseSteps(s, i, acc) ==
    IF i > Len(s) THEN [err |-> FALSE, trav |-> acc]
    ELSE IF s[i] = "." /\ i + 1 <= Len(s) /\ IsIdentStart(s[i + 1]) THEN
        LET j == RunEnd(s, i + 1, Letters \cup Digits \cup {"_", "-"})
        IN ParseSteps(s, j + 1, Append(acc, Attr(SubSeq(s, i + 1, j))))
    ELSE IF s[i] = "." /\ i + 1 <= Len(s) /\ s[i + 1] \in Digits THEN
        LET j == NumberEnd(s, i + 1)
        IN ParseSteps(s, j + 1, Append(acc, Index(SubSeq(s, i + 1, j))))
    ELSE IF s[i] = "[" /\ i + 1 <= Len(s) /\ s[i + 1] \in Digits THEN
        LET j == NumberEnd(s, i + 1)
        IN IF j + 1 <= Len(s) /\ s[j + 1] = "]"
           THEN ParseSteps(s, j + 2, Append(acc, Index(SubSeq(s, i + 1, j))))
           ELSE ParseFail(acc)
    ELSE ParseFail(acc)

ParseTraversalAbs(s) ==
    IF Len(s) >= 1 /\ IsIdentStart(s[1])
    THEN LET j == RunEnd(s, 1, Letters \cup Digits \cup {"_", "-"})
         IN ParseSteps(s, j + 1, <<Root(SubSeq(s, 1, j))>>)
    ELSE ParseFail(<< >>)

(***************************************************************************)
(* decodeProviderAttribute.                                                *)
(***************************************************************************)
ZeroRef == [LocalName |-> EmptyStr, Alias |-> EmptyStr]

InvalidProviderReference == Diag("Invalid provider reference", << >>)

\* Lines 196-209: the fallback taken when AbsTraversalForExpr fails.
FallbackTraversal(e) ==
    LET d == DecodeExpression(e)
        p == ParseTraversalAbs(d.val)
    IN IF ~HasErrors(d.diags) /\ ~p.err THEN p.trav ELSE << >>

\* Lines 213-234: the result for the traversal the attempts left.
RefOfTraversalDotted(t) ==
    IF Len(t) > 0
    THEN [ref |-> [LocalName |-> t[1].name,
                   Alias |-> IF Len(t) > 1 THEN t[2].name ELSE EmptyStr],
          diags |-> << >>]
    ELSE [ref |-> ZeroRef, diags |-> <<InvalidProviderReference>>]

RefOfTraversalSilent(t) ==
    IF Len(t) > 0
    THEN [ref |-> [LocalName |-> t[1].name,
                   Alias |-> IF Len(t) > 1 /\ t[2].kind = "attr"
                             THEN t[2].name ELSE EmptyStr],
          diags |-> << >>]
    ELSE [ref |-> ZeroRef, diags |-> << >>]

RefOfTraversal(t) ==
    IF Len(t) > 0
    THEN [ref |-> [LocalName |-> t[1].name,
                   Alias |-> IF Len(t) > 1 /\ t[2].kind = "attr"
                             THEN t[2].name ELSE EmptyStr],
          diags |-> << >>]
    ELSE [ref |-> ZeroRef, diags |-> <<InvalidProviderReference>>]

decodeProviderAttribute(e) ==
    LET t == AbsTraversalForExpr(e)
    IN RefOfTraversal(IF t.err THEN FallbackTraversal(e) ELSE t.trav)

(***************************************************************************)
(* The decoded module and its records.                                     *)
(***************************************************************************)
EmptyMap == << >>

Put(m, k, v) == [x \in DOMAIN m \cup {k} |-> IF x = k THEN v ELSE m[x]]

newDecodedModule ==
    [RequiredCore |-> << >>,
     ProviderRequirements |-> EmptyMap,
     ProviderConfigs |-> EmptyMap,
     Resources |-> EmptyMap,
     DataSources |-> EmptyMap,
     ModuleSources |-> EmptyMap]

Req(source, constraints) ==
    [Source |-> source, VersionConstraints |-> constraints]

\* &providerRequirement{}
ZeroRequirement == Req(EmptyStr, << >>)

\* resource.MapKey and dataSource.MapKey: Type and Name joined by a dot,
\* with the prefix "data." for a data source.
ResourceMapKey(r) == r.Type \o <<".">> \o r.Name
DataSourceMapKey(r) == <<"d", "a", "t", "a", ".">> \o r.Type \o <<".">> \o r.Name

\* ModuleSource.MapKey
ModuleMapKey(r) == <<"m", "o", "d", "u", "l", "e", ".">> \o r.Name

\* inferProviderNameFromType: the type up to its first underscore.
RECURSIVE IndexByte(_, _, _)
IndexByte(s, c, i) ==
    IF i > Len(s) THEN 0 ELSE IF s[i] = c THEN i ELSE IndexByte(s, c, i + 1)

inferProviderNameFromType(typeName) ==
    LET underPos == IndexByte(typeName, "_", 1)
    IN IF underPos # 0 THEN SubSeq(typeName, 1, underPos - 1) ELSE typeName

(***************************************************************************)
(* Blocks of a file, as PartialContent returns them. `shape` holds the     *)
(* diagnostics PartialContent gives for the block's body; an attribute is  *)
(* either not defined or holds an expression; `inner` holds the            *)
(* required_providers blocks of a terraform block, each by the result of   *)
(* decodeRequiredProvidersBlock: the requirements by provider name, and    *)
(* the diagnostics.                                                        *)
(***************************************************************************)
Absent == [defined |-> FALSE, expr |-> CallExpr]
Given(e) == [defined |-> TRUE, expr |-> e]

ShapeDiag == Diag("Unsupported argument", << >>)

RequiredProviders(reqs, reqsDiags) == [reqs |-> reqs, reqsDiags |-> reqsDiags]

TerraformBlock(shape, required_version, inner) ==
    [type |-> "terraform", labels |-> << >>, shape |-> shape,
     attrs |-> [required_version |-> required_version], inner |-> inner]
ProviderBlock(name, shape, version, alias) ==
    [type |-> "provider", labels |-> <<name>>, shape |-> shape,
     attrs |-> [version |-> version, alias |-> alias], inner |-> << >>]
DataBlock(type, name, shape, provider) ==
    [type |-> "data", labels |-> <<type, name>>, shape |-> shape,
     attrs |-> [provider |-> provider], inner |-> << >>]
ResourceBlock(type, name, shape, provider) ==
    [type |-> "resource", labels |-> <<type, name>>, shape |-> shape,
     attrs |-> [provider |-> provider], inner |-> << >>]
ModuleBlock(name, shape, source) ==
    [type |-> "module", labels |-> <<name>>, shape |-> shape,
     attrs |-> [source |-> source], inner |-> << >>]

(***************************************************************************)
(* loadModuleFromFile, case by case. Each handler gives the module after   *)
(* the block and the diagnostics the block appended, in order.             *)
(***************************************************************************)
Result(m, ds) == [mod |-> m, diags |-> ds]

MultipleSources(name, source, reqSource) ==
    Diag("Multiple provider source attributes", <<name, source, reqSource>>)

\* Lines 70-88: one iteration of `for name, req := range reqs`, on the
\* requirements map.
MergeOverwriting(pr, name, req) ==
    IF name \notin DOMAIN pr
    THEN [reqs |-> Put(pr, name, req), diags |-> << >>]
    ELSE LET source == pr[name].Source
             conflict == req.Source # EmptyStr /\ source # EmptyStr
                         /\ source # req.Source
         IN [reqs |-> Put(pr, name,
                          Req(IF req.Source # EmptyStr
                              THEN req.Source ELSE source,
                              pr[name].VersionConstraints
                                  \o req.VersionConstraints)),
             diags |-> IF conflict
                       THEN <<MultipleSources(name, source, req.Source)>>
                       ELSE << >>]

MergeSkippingConstraints(pr, name, req) ==
    IF name \notin DOMAIN pr
    THEN [reqs |-> Put(pr, name, req), diags |-> << >>]
    ELSE LET source == pr[name].Source
             conflict == req.Source # EmptyStr /\ source # EmptyStr
                         /\ source # req.Source
         IN [reqs |-> Put(pr, name,
                          Req(IF req.Source # EmptyStr /\ ~conflict
                              THEN req.Source ELSE source,
                              IF conflict
                              THEN pr[name].VersionConstraints
                              ELSE pr[name].VersionConstraints
                                       \o req.VersionConstraints)),
             diags |-> IF conflict
                       THEN <<MultipleSources(name, source, req.Source)>>
                       ELSE << >>]

MergeKeepingSource(pr, name, req) ==
    IF name \notin DOMAIN pr
    THEN [reqs |-> Put(pr, name, req), diags |-> << >>]
    ELSE LET source == pr[name].Source
             conflict == req.Source # EmptyStr /\ source # EmptyStr
                         /\ source # req.Source
         IN [reqs |-> Put(pr, name,
                          Req(source,
                              pr[name].VersionConstraints
                                  \o req.VersionConstraints)),
             diags |-> IF conflict
                       THEN <<MultipleSources(name, source, req.Source)>>
                       ELSE << >>]

MergeRequirement(pr, name, req) ==
    IF name \notin DOMAIN pr
    THEN [reqs |-> Put(pr, name, req), diags |-> << >>]
    ELSE LET source == pr[name].Source
             conflict == req.Source # EmptyStr /\ source # EmptyStr
                         /\ source # req.Source
         IN [reqs |-> Put(pr, name,
                          Req(IF req.Source # EmptyStr /\ ~conflict
                              THEN req.Source ELSE source,
                              pr[name].VersionConstraints
                                  \o req.VersionConstraints)),
             diags |-> IF conflict
                       THEN <<MultipleSources(name, source, req.Source)>>
                       ELSE << >>]

\* Lines 69-89: the range over one required_providers block's requirements,
\* in the order `names` (Go does not fix the order of a range over a map).
RECURSIVE MergeRequirements(_, _, _)
MergeRequirements(pr, reqs, names) ==
    IF names = << >> THEN [reqs |-> pr, diags |-> << >>]
    ELSE LET one == MergeRequirement(pr, Head(names), reqs[Head(names)])
             rest == MergeRequirements(one.reqs, reqs, Tail(names))
         IN [reqs |-> rest.reqs, diags |-> one.diags \o rest.diags]

\* Lines 64-91: the required_providers blocks of a terraform block, in
\* order; orders[i] is the order of the range over the i-th block's map.
RECURSIVE MergeInnerBlocks(_, _, _)
MergeInnerBlocks(pr, inner, orders) ==
    IF inner = << >> THEN [reqs |-> pr, diags |-> << >>]
    ELSE LET one == MergeRequirements(pr, Head(inner).reqs, Head(orders))
             rest == MergeInnerBlocks(one.reqs, Tail(inner), Tail(orders))
         IN [reqs |-> rest.reqs,
             diags |-> Head(inner).reqsDiags \o one.diags \o rest.diags]

\* Lines 55-62
RequiredVersionPrepended(core, a) ==
    IF a.defined
    THEN LET d == DecodeExpression(a.expr)
         IN [core |-> IF ~HasErrors(d.diags) THEN <<d.val>> \o core ELSE core,
             diags |-> d.diags]
    ELSE [core |-> core, diags |-> << >>]

RequiredVersion(core, a) ==
    IF a.defined
    THEN LET d == DecodeExpression(a.expr)
         IN [core |-> IF ~HasErrors(d.diags) THEN Append(core, d.val) ELSE core,
             diags |-> d.diags]
    ELSE [core |-> core, diags |-> << >>]

\* Lines 51-91
HandleTerraform(m, b, orders) ==
    LET rv == RequiredVersion(m.RequiredCore, b.attrs.required_version)
        rp == MergeInnerBlocks(m.ProviderRequirements, b.inner, orders)
    IN Result([m EXCEPT !.RequiredCore = rv.core,
                        !.ProviderRequirements = rp.reqs],
              b.shape \o rv.diags \o rp.diags)

\* Lines 92-124
HandleProviderResetting(m, b) ==
    LET name == b.labels[1]
        v == DecodeExpression(b.attrs.version.expr)
        a == DecodeExpression(b.attrs.alias.expr)
        vOk == b.attrs.version.defined /\ ~HasErrors(v.diags)
        alias == IF b.attrs.alias.defined THEN a.val ELSE EmptyStr
        pr0 == Put(m.ProviderRequirements, name, ZeroRequirement)
        pr1 == IF vOk
               THEN Put(pr0, name,
                        Req(pr0[name].Source,
                            Append(pr0[name].VersionConstraints, v.val)))
               ELSE pr0
        providerKey == IF b.attrs.alias.defined /\ ~HasErrors(a.diags)
                          /\ alias # EmptyStr
                       THEN name \o <<".">> \o alias
                       ELSE name
    IN Result([m EXCEPT !.ProviderRequirements = pr1,
                        !.ProviderConfigs =
                            Put(@, providerKey,
                                [Name |-> name, Alias |-> alias])],
              b.shape
                  \o (IF b.attrs.version.defined THEN v.diags ELSE << >>)
                  \o (IF b.attrs.alias.defined THEN a.diags ELSE << >>))

HandleProviderVersionedOnly(m, b) ==
    LET name == b.labels[1]
        v == DecodeExpression(b.attrs.version.expr)
        a == DecodeExpression(b.attrs.alias.expr)
        vOk == b.attrs.version.defined /\ ~HasErrors(v.diags)
        alias == IF b.attrs.alias.defined THEN a.val ELSE EmptyStr
        pr0 == IF name \notin DOMAIN m.ProviderRequirements /\ vOk
               THEN Put(m.ProviderRequirements, name, ZeroRequirement)
               ELSE m.ProviderRequirements
        pr1 == IF vOk
               THEN Put(pr0, name,
                        Req(pr0[name].Source,
                            Append(pr0[name].VersionConstraints, v.val)))
               ELSE pr0
        providerKey == IF b.attrs.alias.defined /\ ~HasErrors(a.diags)
                          /\ alias # EmptyStr
                       THEN name \o <<".">> \o alias
                       ELSE name
    IN Result([m EXCEPT !.ProviderRequirements = pr1,
                        !.ProviderConfigs =
                            Put(@, providerKey,
                                [Name |-> name, Alias |-> alias])],
              b.shape
                  \o (IF b.attrs.version.defined THEN v.diags ELSE << >>)
                  \o (IF b.attrs.alias.defined THEN a.diags ELSE << >>))

HandleProviderKeyedByName(m, b) ==
    LET name == b.labels[1]
        v == DecodeExpression(b.attrs.version.expr)
        a == DecodeExpression(b.attrs.alias.expr)
        vOk == b.attrs.version.defined /\ ~HasErrors(v.diags)
        alias == IF b.attrs.alias.defined THEN a.val ELSE EmptyStr
        pr0 == IF name \notin DOMAIN m.ProviderRequirements
               THEN Put(m.ProviderRequirements, name, ZeroRequirement)
               ELSE m.ProviderRequirements
        pr1 == IF vOk
               THEN Put(pr0, name,
                        Req(pr0[name].Source,
                            Append(pr0[name].VersionConstraints, v.val)))
               ELSE pr0
    IN Result([m EXCEPT !.ProviderRequirements = pr1,
                        !.ProviderConfigs =
                            Put(@, name, [Name |-> name, Alias |-> alias])],
              b.shape
                  \o (IF b.attrs.version.defined THEN v.diags ELSE << >>)
                  \o (IF b.attrs.alias.defined THEN a.diags ELSE << >>))

HandleProviderAllOrNothing(m, b) ==
    LET name == b.labels[1]
        v == DecodeExpression(b.attrs.version.expr)
        a == DecodeExpression(b.attrs.alias.expr)
        vOk == b.attrs.version.defined /\ ~HasErrors(v.diags)
        alias == IF b.attrs.alias.defined THEN a.val ELSE EmptyStr
        failed == \/ b.attrs.version.defined /\ HasErrors(v.diags)
                  \/ b.attrs.alias.defined /\ HasErrors(a.diags)
        pr0 == IF name \notin DOMAIN m.ProviderRequirements
               THEN Put(m.ProviderRequirements, name, ZeroRequirement)
               ELSE m.ProviderRequirements
        pr1 == IF vOk
               THEN Put(pr0, name,
                        Req(pr0[name].Source,
                            Append(pr0[name].VersionConstraints, v.val)))
               ELSE pr0
        providerKey == IF b.attrs.alias.defined /\ ~HasErrors(a.diags)
                          /\ alias # EmptyStr
                       THEN name \o <<".">> \o alias
                       ELSE name
    IN Result(IF failed THEN [m EXCEPT !.ProviderRequirements = pr0]
              ELSE [m EXCEPT !.ProviderRequirements = pr1,
                             !.ProviderConfigs =
                                 Put(@, providerKey,
                                     [Name |-> name, Alias |-> alias])],
              b.shape
                  \o (IF b.attrs.version.defined THEN v.diags ELSE << >>)
                  \o (IF b.attrs.alias.defined THEN a.diags ELSE << >>))

HandleProviderWithoutRequirement(m, b) ==
    LET name == b.labels[1]
        v == DecodeExpression(b.attrs.version.expr)
        a == DecodeExpression(b.attrs.alias.expr)
        vOk == b.attrs.version.defined /\ ~HasErrors(v.diags)
        alias == IF b.attrs.alias.defined THEN a.val ELSE EmptyStr
        pr0 == m.ProviderRequirements
        pr1 == IF vOk /\ name \in DOMAIN pr0
               THEN Put(pr0, name,
                        Req(pr0[name].Source,
                            Append(pr0[name].VersionConstraints, v.val)))
               ELSE pr0
        providerKey == IF b.attrs.alias.defined /\ ~HasErrors(a.diags)
                          /\ alias # EmptyStr
                       THEN name \o <<".">> \o alias
                       ELSE name
    IN Result([m EXCEPT !.ProviderRequirements = pr1,
                        !.ProviderConfigs =
                            Put(@, providerKey,
                                [Name |-> name, Alias |-> alias])],
              b.shape
                  \o (IF b.attrs.version.defined THEN v.diags ELSE << >>)
                  \o (IF b.attrs.alias.defined THEN a.diags ELSE << >>))

HandleProvider(m, b) ==
    LET name == b.labels[1]
        v == DecodeExpression(b.attrs.version.expr)
        a == DecodeExpression(b.attrs.alias.expr)
        vOk == b.attrs.version.defined /\ ~HasErrors(v.diags)
        alias == IF b.attrs.alias.defined THEN a.val ELSE EmptyStr
        pr0 == IF name \notin DOMAIN m.ProviderRequirements
               THEN Put(m.ProviderRequirements, name, ZeroRequirement)
               ELSE m.ProviderRequirements
        pr1 == IF vOk
               THEN Put(pr0, name,
                        Req(pr0[name].Source,
                            Append(pr0[name].VersionConstraints, v.val)))
               ELSE pr0
        providerKey == IF b.attrs.alias.defined /\ ~HasErrors(a.diags)
                          /\ alias # EmptyStr
                       THEN name \o <<".">> \o alias
                       ELSE name
    IN Result([m EXCEPT !.ProviderRequirements = pr1,
                        !.ProviderConfigs =
                            Put(@, providerKey,
                                [Name |-> name, Alias |-> alias])],
              b.shape
                  \o (IF b.attrs.version.defined THEN v.diags ELSE << >>)
                  \o (IF b.attrs.alias.defined THEN a.diags ELSE << >>))

\* Lines 137-147 and 160-170: the Provider of a data source or a resource.
ProviderOfWholeType(type, a) ==
    IF a.defined
    THEN decodeProviderAttribute(a.expr)
    ELSE [ref |-> [LocalName |-> type, Alias |-> EmptyStr], diags |-> << >>]

ProviderOfInferringOnFailure(type, a) ==
    LET inferred == [LocalName |-> inferProviderNameFromType(type),
                     Alias |-> EmptyStr]
        d == decodeProviderAttribute(a.expr)
    IN IF a.defined
       THEN [ref |-> IF HasErrors(d.diags) THEN inferred ELSE d.ref,
             diags |-> d.diags]
       ELSE [ref |-> inferred, diags |-> << >>]

ProviderOf(type, a) ==
    IF a.defined
    THEN decodeProviderAttribute(a.expr)
    ELSE [ref |-> [LocalName |-> inferProviderNameFromType(type),
                   Alias |-> EmptyStr],
          diags |-> << >>]

\* Lines 126-147
HandleData(m, b) ==
    LET p == ProviderOf(b.labels[1], b.attrs.provider)
        ds == [Type |-> b.labels[1], Name |-> b.labels[2], Provider |-> p.ref]
    IN Result([m EXCEPT !.DataSources = Put(@, DataSourceMapKey(ds), ds)],
              b.shape \o p.diags)

\* Lines 149-170
HandleResourceKeepingFirst(m, b) ==
    LET p == ProviderOf(b.labels[1], b.attrs.provider)
        r == [Type |-> b.labels[1], Name |-> b.labels[2], Provider |-> p.ref]
    IN Result([m EXCEPT !.Resources =
                   IF ResourceMapKey(r) \in DOMAIN @ THEN @
                   ELSE Put(@, ResourceMapKey(r), r)],
              b.shape \o p.diags)

HandleResourceRequiringProvider(m, b) ==
    LET p == ProviderOf(b.labels[1], b.attrs.provider)
        r == [Type |-> b.labels[1], Name |-> b.labels[2], Provider |-> p.ref]
    IN Result([m EXCEPT !.Resources = Put(@, ResourceMapKey(r), r),
                        !.ProviderRequirements =
                            IF p.ref.LocalName \in DOMAIN @ THEN @
                            ELSE Put(@, p.ref.LocalName, ZeroRequirement)],
              b.shape \o p.diags)

HandleResource(m, b) ==
    LET p == ProviderOf(b.labels[1], b.attrs.provider)
        r == [Type |-> b.labels[1], Name |-> b.labels[2], Provider |-> p.ref]
    IN Result([m EXCEPT !.Resources = Put(@, ResourceMapKey(r), r)],
              b.shape \o p.diags)

\* Lines 171-182
HandleModuleDroppingFailed(m, b) ==
    LET d == DecodeExpression(b.attrs.source.expr)
        ms == [Name |-> b.labels[1],
               Source |-> IF b.attrs.source.defined /\ ~HasErrors(d.diags)
                          THEN d.val ELSE EmptyStr]
    IN Result(IF b.attrs.source.defined /\ HasErrors(d.diags) THEN m
              ELSE [m EXCEPT !.ModuleSources = Put(@, ModuleMapKey(ms), ms)],
              b.shape
                  \o (IF b.attrs.source.defined THEN d.diags ELSE << >>))

HandleModule(m, b) ==
    LET d == DecodeExpression(b.attrs.source.expr)
        ms == [Name |-> b.labels[1],
               Source |-> IF b.attrs.source.defined /\ ~HasErrors(d.diags)
                          THEN d.val ELSE EmptyStr]
    IN Result([m EXCEPT !.ModuleSources = Put(@, ModuleMapKey(ms), ms)],
              b.shape
                  \o (IF b.attrs.source.defined THEN d.diags ELSE << >>))

(***************************************************************************)
(* The inputs: the blocks a file may hold, and the expressions a           *)
(* `provider` attribute may hold.                                          *)
(***************************************************************************)
c1 == <<">", "1">>
c2 == <<"<", "2">>
s1 == <<"h", "/", "a">>
s2 == <<"x", "/", "a">>
x == <<"x">>
m1 == <<"m">>

aws_east == <<Root(aws), Attr(east)>>
quoted_gcp_east == gcp \o <<".">> \o east

TerraformBlocks ==
    { TerraformBlock(<< >>, Given(StrExpr(c1)),
          <<RequiredProviders((aws :> Req(s1, <<c1>>)), << >>)>>),
      TerraformBlock(<< >>, Given(NumExpr(<<"1">>)),
          <<RequiredProviders((aws :> Req(s2, <<c2>>))
                                  @@ (gcp :> Req(EmptyStr, <<c1>>)), << >>)>>),
      TerraformBlock(<<ShapeDiag>>, Given(CallExpr),
          <<RequiredProviders((aws :> Req(s2, <<c1, c2>>)), << >>),
            RequiredProviders((aws :> Req(s1, <<c1>>)), <<ShapeDiag>>)>>),
      TerraformBlock(<< >>, Absent, << >>) }

ProviderBlocks ==
    { ProviderBlock(aws, << >>, Given(StrExpr(c2)), Given(KwExpr(null))),
      ProviderBlock(aws, << >>, Given(CallExpr), Given(StrExpr(east))),
      ProviderBlock(gcp, <<ShapeDiag>>, Absent, Absent),
      ProviderBlock(aws \o <<".">> \o east, << >>, Absent, Absent) }

ResourceBlocks ==
    { ResourceBlock(aws_vm_x, x, << >>, Absent),
      ResourceBlock(aws_vm_x, x, << >>, Given(TravExpr(aws_east))),
      ResourceBlock(vm, x, <<ShapeDiag>>, Given(NumExpr(<<"5">>))) }

DataBlocks ==
    { DataBlock(vm, x, << >>, Absent),
      DataBlock(vm, x, << >>, Given(StrExpr(quoted_gcp_east))) }

ModuleBlocks ==
    { ModuleBlock(m1, << >>, Given(StrExpr(s1))),
      ModuleBlock(m1, << >>, Given(CallExpr)) }

Blocks ==
    TerraformBlocks \cup ProviderBlocks \cup ResourceBlocks \cup DataBlocks
        \cup ModuleBlocks

\* A file, as file.Body.PartialContent(rootSchema) returns it: the blocks
\* and the diagnostics.
Files(n) ==
    {[contentDiags |-> d, blocks |-> bs] :
        d \in {<< >>, <<ShapeDiag>>}, bs \in StringsUpTo(Blocks, n)}

Perms(S) ==
    {f \in [1..Cardinality(S) -> S] :
        \A i, j \in 1..Cardinality(S) : f[i] = f[j] => i = j}

\* The orders in which the ranges over the maps of `inner` may run.
OrdersOf(inner) ==
    {o \in [1..Len(inner) ->
                UNION {Perms(DOMAIN inner[i].reqs) : i \in 1..Len(inner)}] :
        \A i \in 1..Len(inner) : o[i] \in Perms(DOMAIN inner[i].reqs)}

(***************************************************************************)
(* The dispatcher: passes of loadModuleFromFile over one decodedModule.    *)
(***************************************************************************)
\* Line 48: the loop ends when every block has been handled.
LoopDoneOnError(i, bs, ds) == i = Len(bs) \/ HasErrors(ds)

LoopDone(i, bs, ds) == i = Len(bs)

DispatcherInit ==
    /\ mod = newDecodedModule
    /\ diags = << >>
    /\ pc = "idle"
    /\ blocks = << >>
    /\ contentDiags = << >>
    /\ idx = 0
    /\ hist = << >>

ResolverIdle ==
    /\ attr = CallExpr
    /\ traversal = << >>
    /\ ref = ZeroRef
    /\ rdiags = << >>
    /\ rpc = "idle"

ConcurrentIdle ==
    /\ sequenced = TRUE
    /\ calls = << >>

Init == DispatcherInit /\ ResolverIdle /\ ConcurrentIdle

\* Lines 43-46: a pass begins on a file.
LoadModuleFromFileFresh ==
    /\ pc = "idle"
    /\ \E f \in Files(MaxSteps - Len(hist)) :
          /\ contentDiags' = f.contentDiags
          /\ diags' = f.contentDiags
          /\ blocks' = f.blocks
    /\ idx' = 0
    /\ pc' = "loop"
    /\ mod' = newDecodedModule
    /\ UNCHANGED <<hist, resolverVars, concurrentVars>>

LoadModuleFromFile ==
    /\ pc = "idle"
    /\ \E f \in Files(MaxSteps - Len(hist)) :
          /\ contentDiags' = f.contentDiags
          /\ diags' = f.contentDiags
          /\ blocks' = f.blocks
    /\ idx' = 0
    /\ pc' = "loop"
    /\ UNCHANGED <<mod, hist, resolverVars, concurrentVars>>

Handled(b, orders, r) ==
    /\ mod' = r.mod
    /\ diags' = diags \o r.diags
    /\ idx' = idx + 1
    /\ hist' = Append(hist, [block |-> b, orders |-> orders])
    /\ UNCHANGED <<pc, blocks, contentDiags, resolverVars, concurrentVars>>

Terraform ==
    /\ pc = "loop" /\ ~LoopDone(idx, blocks, diags)
    /\ blocks[idx + 1].type = "terraform"
    /\ \E orders \in OrdersOf(blocks[idx + 1].inner) :
          Handled(blocks[idx + 1], orders,
                  HandleTerraform(mod, blocks[idx + 1], orders))

Provider ==
    /\ pc = "loop" /\ ~LoopDone(idx, blocks, diags)
    /\ blocks[idx + 1].type = "provider"
    /\ Handled(blocks[idx + 1], << >>, HandleProvider(mod, blocks[idx + 1]))

Data ==
    /\ pc = "loop" /\ ~LoopDone(idx, blocks, diags)
    /\ blocks[idx + 1].type = "data"
    /\ Handled(blocks[idx + 1], << >>, HandleData(mod, blocks[idx + 1]))

Resource ==
    /\ pc = "loop" /\ ~LoopDone(idx, blocks, diags)
    /\ blocks[idx + 1].type = "resource"
    /\ Handled(blocks[idx + 1], << >>, HandleResource(mod, blocks[idx + 1]))

Module ==
    /\ pc = "loop" /\ ~LoopDone(idx, blocks, diags)
    /\ blocks[idx + 1].type = "module"
    /\ Handled(blocks[idx + 1], << >>, HandleModule(mod, blocks[idx + 1]))

\* Line 186
Return ==
    /\ pc = "loop" /\ LoopDone(idx, blocks, diags)
    /\ pc' = "idle"
    /\ UNCHANGED <<mod, diags, blocks, contentDiags, idx, hist, resolverVars,
                   concurrentVars>>

Next ==
    \/ LoadModuleFromFile
    \/ Terraform
    \/ Provider
    \/ Data
    \/ Resource
    \/ Module
    \/ Return

Spec == Init /\ [][Next]_vars

(***************************************************************************)
(* decodeProviderAttribute, step by step, on every expression of           *)
(* ProviderExprs.                                                          *)
(***************************************************************************)
SegmentText(seg) ==
    CASE seg.kind = "root" -> seg.name
      [] seg.kind = "attr" -> <<".">> \o seg.name
      [] OTHER -> <<"[">> \o seg.name \o <<"]">>

\* The source text of a bare traversal.
RECURSIVE TraversalText(_)
TraversalText(segs) ==
    IF segs = << >> THEN << >>
    ELSE SegmentText(Head(segs)) \o TraversalText(Tail(segs))

SegmentNames == {aws, east, <<"a">>}
Steps == {Attr(n) : n \in SegmentNames} \cup {Index(<<"0">>)}

\* The bare traversals of at most n segments: a root, then steps.
Traversals(n) ==
    UNION {{<<Root(r)>> \o t : r \in SegmentNames, t \in [1..k -> Steps]} :
              k \in 0..(n - 1)}

TextAlphabet == {"a", ".", "_", "5", "[", "]"}

ProviderExprs ==
    {TravExpr(t) : t \in Traversals(MaxSegs)}
        \cup {StrExpr(TraversalText(t)) : t \in Traversals(MaxSegs)}
        \cup {StrExpr(t) : t \in StringsUpTo(TextAlphabet, MaxStrLen)}
        \cup {StrExpr(true), StrExpr(<<"5">> \o aws)}
        \cup {NumExpr(<<"5">>), NumExpr(<<"0", ".", "5">>)}
        \cup {KwExpr(true), KwExpr(false), KwExpr(null)}
        \cup {CallExpr}

ResolverInit ==
    /\ DispatcherInit
    /\ ConcurrentIdle
    /\ attr \in ProviderExprs
    /\ traversal = << >>
    /\ ref = ZeroRef
    /\ rdiags = << >>
    /\ rpc = "start"

\* Lines 195-197
AbsTraversal ==
    /\ rpc = "start"
    /\ LET t == AbsTraversalForExpr(attr)
       IN /\ traversal' = IF t.err THEN << >> ELSE t.trav
          /\ rpc' = IF t.err THEN "fallback" ELSE "result"
    /\ UNCHANGED <<attr, ref, rdiags, dispatcherVars, concurrentVars>>

\* Lines 199-208
Fallback ==
    /\ rpc = "fallback"
    /\ traversal' = FallbackTraversal(attr)
    /\ rpc' = "result"
    /\ UNCHANGED <<attr, ref, rdiags, dispatcherVars, concurrentVars>>

\* Lines 213-234
ReturnRef ==
    /\ rpc = "result"
    /\ ref' = RefOfTraversal(traversal).ref
    /\ rdiags' = RefOfTraversal(traversal).diags
    /\ rpc' = "done"
    /\ UNCHANGED <<attr, traversal, dispatcherVars, concurrentVars>>

ResolverNext == AbsTraversal \/ Fallback \/ ReturnRef

ResolverSpec == ResolverInit /\ [][ResolverNext]_vars

(***************************************************************************)
(* Properties of decodeProviderAttribute (checked under ResolverSpec).     *)
(***************************************************************************)
\* What the reference of a traversal is to be: the name of the first
\* segment, and the name of the second one when it is an attribute step.
RefNamed(t) ==
    [LocalName |-> t[1].name,
     Alias |-> IF Len(t) >= 2 /\ t[2].kind = "attr" THEN t[2].name
               ELSE EmptyStr]

\* C7 as claimed: every expression that is neither a bare reference nor a
\* string (a number literal, any other non-string literal, a call) resolves
\* to the zero ProviderRef with exactly one "Invalid provider reference"
\* diagnostic.
C7_AnyNonStringLiteralIsInvalid ==
    (rpc = "done" /\ attr.kind \notin {"traversal", "template"})
        => ref = ZeroRef /\ rdiags = <<InvalidProviderReference>>

\* C7, amended: a number literal or a call resolves to the zero ProviderRef
\* with exactly one "Invalid provider reference" diagnostic, while the
\* keyword literals true, false and null are read as a bare reference to
\* the provider of that name, with no diagnostic. The resolver returns a
\* diagnostic exactly when the attempts left no traversal, never more than
\* one, and then the reference is the zero one.
C7_InvalidReference ==
    rpc = "done" =>
        /\ attr.kind \in {"number", "call"}
              => ref = ZeroRef /\ rdiags = <<InvalidProviderReference>>
        /\ attr.kind = "keyword"
              => ref = [LocalName |-> attr.str, Alias |-> EmptyStr]
                 /\ rdiags = << >>
        /\ Len(rdiags) <= 1
        /\ rdiags # << >> <=> traversal = << >>
        /\ rdiags # << >>
              => /\ rdiags = <<InvalidProviderReference>>
                 /\ ref = ZeroRef
                 /\ attr.kind # "traversal"
                 /\ attr.kind = "template"
                       => ParseTraversalAbs(attr.str).err

\* C7 witness: the number literal 5 has been resolved, to the zero
\* reference and one diagnostic.
C7_Witness ==
    /\ rpc = "done"
    /\ attr = NumExpr(<<"5">>)
    /\ ref = ZeroRef
    /\ Len(rdiags) = 1

\* C8: the bare traversal is tried first and the quoted string only when
\* that fails; whenever a traversal of one segment or more is obtained the
\* LocalName is its first segment's name and the Alias its second
\* segment's name when that is an attribute step, else empty, with no
\* diagnostic; the quoted text of a bare traversal resolves as the bare
\* traversal does, "aws.east" to {aws, east}.
C8_ResolvedReference ==
    /\ rpc = "fallback" => attr.kind \notin {"traversal", "keyword"}
    /\ rpc \in {"result", "done"} /\ attr.kind = "traversal"
          => traversal = attr.segs
    /\ rpc = "done" /\ Len(traversal) >= 1
          => ref = RefNamed(traversal) /\ rdiags = << >>
    /\ rpc = "done"
          => \A t \in Traversals(MaxSegs) :
                attr \in {TravExpr(t), StrExpr(TraversalText(t))}
                    => ref = RefNamed(t) /\ rdiags = << >>
    /\ rpc = "done" /\ attr = StrExpr(aws \o <<".">> \o east)
          => ref = [LocalName |-> aws, Alias |-> east]

\* C8 witness: the quoted string "aws.east" has been resolved to
\* {aws, east} with no diagnostic.
C8_Witness ==
    /\ rpc = "done"
    /\ attr = StrExpr(aws \o <<".">> \o east)
    /\ ref = [LocalName |-> aws, Alias |-> east]
    /\ rdiags = << >>

(***************************************************************************)
(* What the history declares. These definitions read only `hist`: they say *)
(* what a module holding the declarations of the blocks handled so far is  *)
(* to contain, without following the code.                                 *)
(***************************************************************************)
PR == mod.ProviderRequirements

\* The entries of hist the running (or last) pass handled.
PassStart == Len(hist) - idx
Before(i) == SubSeq(hist, 1, i - 1)

\* The required_providers fragments for provider n in the blocks `inner`.
RECURSIVE FragmentsIn(_, _)
FragmentsIn(inner, n) ==
    IF inner = << >> THEN << >>
    ELSE (IF n \in DOMAIN Head(inner).reqs
          THEN <<Head(inner).reqs[n]>> ELSE << >>)
             \o FragmentsIn(Tail(inner), n)

RECURSIVE FragmentsInHistory(_, _)
FragmentsInHistory(h, n) ==
    IF h = << >> THEN << >>
    ELSE FragmentsIn(Head(h).block.inner, n) \o FragmentsInHistory(Tail(h), n)

\* The first non-empty source among the fragments frs, or the empty string.
FirstSource(frs) ==
    IF \E i \in 1..Len(frs) : frs[i].Source # EmptyStr
    THEN frs[CHOOSE i \in 1..Len(frs) :
                 /\ frs[i].Source # EmptyStr
                 /\ \A j \in 1..(i - 1) : frs[j].Source = EmptyStr].Source
    ELSE EmptyStr

\* A fragment conflicts when it declares a source and an earlier fragment
\* declared another one.
Conflicts(earlier, req) ==
    /\ req.Source # EmptyStr
    /\ FirstSource(earlier) # EmptyStr
    /\ FirstSource(earlier) # req.Source

IsLiteralString(a) == a.defined /\ ~HasErrors(DecodeExpression(a.expr).diags)
FailsToDecode(a) == a.defined /\ HasErrors(DecodeExpression(a.expr).diags)
LiteralString(a) == DecodeExpression(a.expr).val

\* The version constraints block b declares for provider n.
ConstraintsOf(b, n) ==
    CASE b.type = "terraform" ->
            Flatten([i \in 1..Len(FragmentsIn(b.inner, n)) |->
                        FragmentsIn(b.inner, n)[i].VersionConstraints])
      [] b.type = "provider" /\ b.labels[1] = n
            /\ IsLiteralString(b.attrs.version) ->
            <<LiteralString(b.attrs.version)>>
      [] OTHER -> << >>

DeclaredConstraints(h, n) ==
    Flatten([i \in 1..Len(h) |-> ConstraintsOf(h[i].block, n)])

DeclaredCore(h) ==
    Flatten([i \in 1..Len(h) |->
                IF h[i].block.type = "terraform"
                   /\ IsLiteralString(h[i].block.attrs.required_version)
                THEN <<LiteralString(h[i].block.attrs.required_version)>>
                ELSE << >>])

MultipleSourceDiags(ds, n) ==
    {i \in 1..Len(ds) : /\ ds[i].Summary = "Multiple provider source attributes"
                        /\ ds[i].Detail[1] = n}

NameUniverse == {aws, gcp, east}
FragmentUniverse ==
    {Req(s, vc) : s \in {EmptyStr, s1, s2}, vc \in {<< >>, <<c1>>, <<c2, c1>>}}

(***************************************************************************)
(* Properties of the requirement merge (checked under Spec).               *)
(***************************************************************************)
\* C1: a fragment with a non-empty source, merged into an entry whose
\* source is non-empty and different, gives exactly one "Multiple provider
\* source attributes" diagnostic naming both values, leaves the entry's
\* Source as it was and still appends the fragment's constraints; and the
\* diagnostics of a pass hold one such diagnostic for each conflicting
\* fragment the pass has merged.
C1_ConflictingSources ==
    /\ pc = "idle" =>
          \A n \in DOMAIN PR, req \in FragmentUniverse :
              (req.Source # EmptyStr /\ PR[n].Source # EmptyStr
                  /\ PR[n].Source # req.Source)
              => LET r == MergeRequirement(PR, n, req)
                 IN /\ r.diags = <<MultipleSources(n, PR[n].Source, req.Source)>>
                    /\ DOMAIN r.reqs = DOMAIN PR
                    /\ r.reqs[n].Source = PR[n].Source
                    /\ r.reqs[n].VersionConstraints =
                           PR[n].VersionConstraints \o req.VersionConstraints
                    /\ \A o \in DOMAIN PR \ {n} : r.reqs[o] = PR[o]
    /\ \A n \in DOMAIN PR :
          Cardinality(MultipleSourceDiags(diags, n)) =
              Cardinality(
                  {i \in 1..Len(FragmentsInHistory(hist, n)) :
                      /\ i > Len(FragmentsInHistory(Before(PassStart + 1), n))
                      /\ Conflicts(SubSeq(FragmentsInHistory(hist, n), 1, i - 1),
                                   FragmentsInHistory(hist, n)[i])})

\* C1 witness: after a fragment for aws with source s1 and constraint c1,
\* a fragment with source s2 and constraint c2 has been merged: one
\* diagnostic, the source still s1, both constraints.
C1_Witness ==
    /\ aws \in DOMAIN PR
    /\ PR[aws] = Req(s1, <<c1, c2>>)
    /\ diags = <<MultipleSources(aws, s1, s2)>>

\* C2: a fragment with a non-empty source, merged into an entry whose
\* source is empty or equal, gives no diagnostic and the entry's Source is
\* then the fragment's; a fragment for a name not present is inserted
\* unchanged; a fragment with an empty source leaves the Source as it was.
\* Fragments that all declare one source leave no diagnostic and that
\* source.
C2_AgreeingSources ==
    /\ pc = "idle" =>
          \A n \in NameUniverse, req \in FragmentUniverse :
              LET r == MergeRequirement(PR, n, req)
              IN /\ n \notin DOMAIN PR
                       => r.reqs[n] = req /\ r.diags = << >>
                 /\ (n \in DOMAIN PR /\ req.Source # EmptyStr
                        /\ PR[n].Source \in {EmptyStr, req.Source})
                       => r.reqs[n].Source = req.Source /\ r.diags = << >>
                 /\ (n \in DOMAIN PR /\ req.Source = EmptyStr)
                       => r.reqs[n].Source = PR[n].Source /\ r.diags = << >>
                 /\ DOMAIN r.reqs = DOMAIN PR \cup {n}
                 /\ \A o \in DOMAIN PR \ {n} : r.reqs[o] = PR[o]
    /\ \A n \in DOMAIN PR :
          LET frs == FragmentsInHistory(hist, n)
          IN (\A i, j \in 1..Len(frs) : frs[i].Source = frs[j].Source)
                => /\ MultipleSourceDiags(diags, n) = {}
                   /\ Len(frs) >= 1 => PR[n].Source = frs[1].Source

\* C2 witness: two fragments for aws with the same source s1 have been
\* merged: no diagnostic, the shared source, c1 twice.
C2_Witness ==
    /\ aws \in DOMAIN PR
    /\ Len(FragmentsInHistory(hist, aws)) = 2
    /\ \A i \in 1..2 : FragmentsInHistory(hist, aws)[i].Source = s1
    /\ PR[aws] = Req(s1, <<c1, c1>>)
    /\ diags = << >>

\* C3: the Source of every requirement is the first non-empty source the
\* fragments handled so far declared for that name (the empty string when
\* none did), whatever fragments and provider blocks came after it: once
\* non-empty it keeps its value.
C3_SourceIsFirstDeclared ==
    \A n \in DOMAIN PR : PR[n].Source = FirstSource(FragmentsInHistory(hist, n))

\* C3 witness: aws got source s1, and a later fragment declaring s2 has
\* been merged.
C3_Witness ==
    /\ aws \in DOMAIN PR
    /\ PR[aws].Source = s1
    /\ \E i, j \in 1..Len(FragmentsInHistory(hist, aws)) :
          /\ i < j
          /\ FragmentsInHistory(hist, aws)[i].Source = s1
          /\ FragmentsInHistory(hist, aws)[j].Source = s2

\* C4: the VersionConstraints of every requirement are the constraints of
\* every fragment for that name (conflicting or not) and every decoded
\* `version` of a provider block of that name, in the order handled and
\* with duplicates kept; the history only grows at its end, so each step
\* extends the value at its end.
C4_ConstraintsAreConcatenated ==
    \A n \in DOMAIN PR :
        PR[n].VersionConstraints = DeclaredConstraints(hist, n)

\* C4 witness: aws holds the c1, c2 of a fragment with source s2, the c1
\* of a conflicting fragment with source s1, and the c2 of a provider
\* block's version.
C4_Witness ==
    /\ aws \in DOMAIN PR
    /\ PR[aws] = Req(s2, <<c1, c2, c1, c2>>)
    /\ Len(hist) = 2
    /\ hist[2].block.type = "provider"
    /\ MultipleSourceDiags(diags, aws) # {}

(***************************************************************************)
(* Properties of the records (checked under Spec).                         *)
(***************************************************************************)
\* The positions of hist that declare a `kind` block with these labels.
Declarations(kind, labels) ==
    {i \in 1..Len(hist) :
        hist[i].block.type = kind /\ hist[i].block.labels = labels}

Max(S) == CHOOSE i \in S : \A j \in S : j <= i

DeclaredPairs(kind) ==
    {hist[i].block.labels : i \in {j \in 1..Len(hist) : hist[j].block.type = kind}}

\* The record a resource or data block declares.
RecordOf(b) ==
    [Type |-> b.labels[1], Name |-> b.labels[2],
     Provider |-> ProviderOf(b.labels[1], b.attrs.provider).ref]

PairKey(labels) == labels[1] \o <<".">> \o labels[2]
DataPairKey(labels) == <<"d", "a", "t", "a", ".">> \o PairKey(labels)

\* C5: however often and in whichever passes a (type, name) pair was
\* declared as a resource, the map holds one record for the pair and it is
\* the record of the last declaration, provider reference included; the
\* same holds of data sources; and a block gives the same diagnostics
\* whether or not its key is already taken.
C5_LastDeclarationWins ==
    /\ DOMAIN mod.Resources = {PairKey(l) : l \in DeclaredPairs("resource")}
    /\ Cardinality(DOMAIN mod.Resources)
          = Cardinality(DeclaredPairs("resource"))
    /\ \A l \in DeclaredPairs("resource") :
          mod.Resources[PairKey(l)]
              = RecordOf(hist[Max(Declarations("resource", l))].block)
    /\ DOMAIN mod.DataSources = {DataPairKey(l) : l \in DeclaredPairs("data")}
    /\ Cardinality(DOMAIN mod.DataSources) = Cardinality(DeclaredPairs("data"))
    /\ \A l \in DeclaredPairs("data") :
          mod.DataSources[DataPairKey(l)]
              = RecordOf(hist[Max(Declarations("data", l))].block)
    /\ pc = "idle" =>
          /\ \A b \in ResourceBlocks :
                HandleResource(mod, b).diags
                    = HandleResource(newDecodedModule, b).diags
          /\ \A b \in DataBlocks :
                HandleData(mod, b).diags = HandleData(newDecodedModule, b).diags

\* C5 witness: the resource aws_vm_x.x was declared in one pass without a
\* provider and in the next pass with provider aws.east; the record is the
\* second one.
C5_Witness ==
    /\ Len(hist) = 2 /\ idx = 1 /\ pc = "idle"
    /\ hist[1].block = ResourceBlock(aws_vm_x, x, << >>, Absent)
    /\ hist[2].block = ResourceBlock(aws_vm_x, x, << >>, Given(TravExpr(aws_east)))
    /\ DOMAIN mod.Resources = {aws_vm_x \o <<".">> \o x}
    /\ mod.Resources[aws_vm_x \o <<".">> \o x].Provider
          = [LocalName |-> aws, Alias |-> east]

\* C6: RequiredCore holds the required_version of every terraform block
\* handled, over all passes, whose expression decoded as a string, in the
\* order handled and with duplicates kept; a required_version that fails to
\* decode adds its diagnostics and leaves the sequence as it was.
C6_RequiredCoreAppendOnly ==
    /\ mod.RequiredCore = DeclaredCore(hist)
    /\ pc = "idle" =>
          \A b \in TerraformBlocks : \A o \in OrdersOf(b.inner) :
              LET r == HandleTerraform(mod, b, o)
                  rv == b.attrs.required_version
              IN /\ IsPrefix(mod.RequiredCore, r.mod.RequiredCore)
                 /\ FailsToDecode(rv)
                       => /\ r.mod.RequiredCore = mod.RequiredCore
                          /\ IsPrefix(b.shape \o DecodeExpression(rv.expr).diags,
                                      r.diags)
                          /\ HasErrors(DecodeExpression(rv.expr).diags)
                 /\ IsLiteralString(rv)
                       => r.mod.RequiredCore
                              = Append(mod.RequiredCore, LiteralString(rv))

\* C6 witness: two passes of one terraform block each, with
\* required_version "1" and then ">1": the sequence holds them in that
\* order.
C6_Witness ==
    /\ Len(hist) = 2 /\ idx = 1 /\ pc = "idle"
    /\ \A i \in 1..2 : hist[i].block.type = "terraform"
    /\ mod.RequiredCore = << <<"1">>, c1 >>

\* The type up to its first underscore: the prefix without an underscore
\* that is the whole type or is followed by one.
BeforeFirstUnderscore(t) ==
    CHOOSE p \in {SubSeq(t, 1, k) : k \in 0..Len(t)} :
        /\ "_" \notin Range(p)
        /\ Len(p) = Len(t) \/ t[Len(p) + 1] = "_"

TypeUniverse == StringsUpTo({"a", "_"}, MaxTypeLen) \cup {aws_vm_x, vm}

\* C9: the record of a resource or data block without a `provider`
\* attribute holds the type up to its first underscore (the whole type when
\* it has none) as LocalName and an empty Alias, and the block gives no
\* diagnostic but those of its shape; aws_vm_x gives aws, vm gives vm.
C9_ProviderInferredFromType ==
    /\ \A i \in 1..Len(hist) :
          LET b == hist[i].block
              inferred == [LocalName |-> BeforeFirstUnderscore(b.labels[1]),
                           Alias |-> EmptyStr]
          IN /\ (b.type = "resource" /\ ~b.attrs.provider.defined
                    /\ i = Max(Declarations("resource", b.labels)))
                   => mod.Resources[PairKey(b.labels)].Provider = inferred
             /\ (b.type = "data" /\ ~b.attrs.provider.defined
                    /\ i = Max(Declarations("data", b.labels)))
                   => mod.DataSources[DataPairKey(b.labels)].Provider = inferred
    /\ hist = << >> =>
          \A t \in TypeUniverse :
              LET r == HandleResource(mod, ResourceBlock(t, x, << >>, Absent))
                  d == HandleData(mod, DataBlock(t, x, << >>, Absent))
                  inferred == [LocalName |-> BeforeFirstUnderscore(t),
                               Alias |-> EmptyStr]
              IN /\ r.mod.Resources[PairKey(<<t, x>>)].Provider = inferred
                 /\ d.mod.DataSources[DataPairKey(<<t, x>>)].Provider = inferred
                 /\ r.diags = << >> /\ d.diags = << >>
    /\ BeforeFirstUnderscore(aws_vm_x) = aws
    /\ BeforeFirstUnderscore(vm) = vm

\* C9 witness: the resource aws_vm_x.x and the data source vm.x were
\* declared without a provider; their providers are aws and vm.
C9_Witness ==
    /\ PairKey(<<aws_vm_x, x>>) \in DOMAIN mod.Resources
    /\ mod.Resources[PairKey(<<aws_vm_x, x>>)].Provider
          = [LocalName |-> aws, Alias |-> EmptyStr]
    /\ DataPairKey(<<vm, x>>) \in DOMAIN mod.DataSources
    /\ mod.DataSources[DataPairKey(<<vm, x>>)].Provider
          = [LocalName |-> vm, Alias |-> EmptyStr]

(***************************************************************************)
(* Properties of the dispatcher's loop (checked under Spec).               *)
(***************************************************************************)
AttrDiags(a) == IF a.defined THEN DecodeExpression(a.expr).diags ELSE << >>

\* The diagnostics of the i-th required_providers block of b, handled after
\* the history h: those of its decoding, then one for each fragment, in the
\* order `names`, that conflicts with the fragments before it.
InnerDiags(h, b, i, names) ==
    b.inner[i].reqsDiags
        \o Flatten([k \in 1..Len(names) |->
              LET n == names[k]
                  earlier == FragmentsInHistory(h, n)
                                 \o FragmentsIn(SubSeq(b.inner, 1, i - 1), n)
                  req == b.inner[i].reqs[n]
              IN IF Conflicts(earlier, req)
                 THEN <<MultipleSources(n, FirstSource(earlier), req.Source)>>
                 ELSE << >>])

\* The diagnostics of the block of history entry e, handled after the
\* history h: those of its shape, of its attributes and of its resolver or
\* merge, in the order of the steps.
BlockDiags(h, e) ==
    LET b == e.block
    IN b.shape \o
       (CASE b.type = "terraform" ->
                AttrDiags(b.attrs.required_version)
                    \o Flatten([i \in 1..Len(b.inner) |->
                                   InnerDiags(h, b, i, e.orders[i])])
          [] b.type = "provider" ->
                AttrDiags(b.attrs.version) \o AttrDiags(b.attrs.alias)
          [] b.type \in {"data", "resource"} ->
                IF b.attrs.provider.defined
                THEN decodeProviderAttribute(b.attrs.provider.expr).diags
                ELSE << >>
          [] OTHER -> AttrDiags(b.attrs.source))

\* C10: a pass handles the blocks of its file one by one in order, returns
\* only when all are handled, and while a block is left the loop goes on
\* to it whatever diagnostics it holds; its diagnostics are those of the file's content,
\* then those of each handled block's shape, attributes, resolver and
\* merge, in the order handled.
C10_NeverHaltsEarly ==
    /\ idx <= Len(blocks) /\ idx <= Len(hist)
    /\ [i \in 1..idx |-> hist[PassStart + i].block] = SubSeq(blocks, 1, idx)
    /\ pc = "idle" => idx = Len(blocks)
    /\ (pc = "loop" /\ idx < Len(blocks))
          => /\ ~LoopDone(idx, blocks, diags)
             /\ blocks[idx + 1].type
                    \in {"terraform", "provider", "data", "resource", "module"}
             /\ OrdersOf(blocks[idx + 1].inner) # {}
    /\ (pc = "loop" /\ idx = Len(blocks)) => LoopDone(idx, blocks, diags)
    /\ diags = contentDiags
                  \o Flatten([i \in 1..idx |->
                        BlockDiags(Before(PassStart + i), hist[PassStart + i])])

\* C10 witness: a pass over two blocks has returned; the content and the
\* first block gave diagnostics, and the second block, a module call, was
\* handled all the same and gave its own.
C10_Witness ==
    /\ pc = "idle" /\ Len(blocks) = 2 /\ idx = 2
    /\ contentDiags # << >>
    /\ blocks[1].shape # << >>
    /\ BlockDiags(Before(2), hist[2]) # << >>
    /\ Len(diags) >= 3
    /\ blocks[2].type = "module"
    /\ ModuleMapKey([Name |-> m1]) \in DOMAIN mod.ModuleSources

(***************************************************************************)
(* Properties of the provider block (checked under Spec).                  *)
(***************************************************************************)
\* No pass is running, and the blocks handled so far were those of one
\* file. The module depends on the blocks handled and not on the passes
\* they came in, so every module the passes reach is reached in such a
\* state; what a further block does to the module is checked there.
AfterOnePass == pc = "idle" /\ idx = Len(hist)

\* The attributes a block may hold: absent, literal strings (one of them
\* empty), a number, null, and a call.
AttrUniverse ==
    {Absent, Given(StrExpr(c2)), Given(StrExpr(EmptyStr)), Given(StrExpr(east)),
     Given(NumExpr(<<"1">>)), Given(KwExpr(null)), Given(CallExpr)}

\* Provider blocks: a version that is absent, decodes or fails, with an
\* alias that is absent, empty, not empty or fails.
ProviderBlockUniverse ==
    {ProviderBlock(n, << >>, v, a) :
        n \in {aws, gcp},
        v \in {Absent, Given(StrExpr(c2)), Given(CallExpr)},
        a \in {Absent, Given(StrExpr(EmptyStr)), Given(StrExpr(east)),
               Given(KwExpr(null))}}

\* The version a provider block declares: its literal string, if any.
DeclaredVersion(b) ==
    IF IsLiteralString(b.attrs.version)
    THEN <<LiteralString(b.attrs.version)>> ELSE << >>

\* C11: every provider block handled so far has left an entry for its name
\* in the requirements; and a provider block named N, with any version
\* attribute (absent, decoding or failing), gives requirements that hold N,
\* keep every other entry, keep the Source N had (empty when N is new) and
\* hold for N the constraints it had followed by the block's decoded
\* version, if any.
C11_ProviderBlockEnsuresEntry ==
    /\ \A i \in 1..Len(hist) :
          hist[i].block.type = "provider"
              => hist[i].block.labels[1] \in DOMAIN PR
    /\ AfterOnePass =>
          \A b \in ProviderBlockUniverse :
              LET n == b.labels[1]
                  after == HandleProvider(mod, b).mod.ProviderRequirements
                  before == IF n \in DOMAIN PR THEN PR[n] ELSE ZeroRequirement
              IN /\ DOMAIN after = DOMAIN PR \cup {n}
                 /\ \A o \in DOMAIN PR \ {n} : after[o] = PR[o]
                 /\ after[n].Source = before.Source
                 /\ after[n].VersionConstraints
                       = before.VersionConstraints \o DeclaredVersion(b)

\* C11 witness: aws had source s1 and constraint c1, and a provider block
\* for aws whose version fails to decode was then handled: the entry for
\* aws is as it was.
C11_Witness ==
    /\ Len(hist) = 2
    /\ hist[1].block.type = "terraform"
    /\ hist[2].block = ProviderBlock(aws, << >>, Given(CallExpr),
                                     Given(StrExpr(east)))
    /\ FailsToDecode(hist[2].block.attrs.version)
    /\ DOMAIN PR = {aws}
    /\ PR[aws] = Req(s1, <<c1>>)

\* The key of a provider-config entry, from its fields.
ConfigKey(c) ==
    IF c.Alias = EmptyStr THEN c.Name ELSE c.Name \o <<".">> \o c.Alias

\* The entry a provider block declares: its name and the literal string of
\* its alias (empty when the alias is absent or fails to decode).
ConfigOf(b) ==
    [Name |-> b.labels[1],
     Alias |-> IF IsLiteralString(b.attrs.alias)
               THEN LiteralString(b.attrs.alias) ELSE EmptyStr]

\* The positions of hist holding a provider block whose entry has key k.
ConfigDeclarations(k) ==
    {i \in 1..Len(hist) :
        /\ hist[i].block.type = "provider"
        /\ ConfigKey(ConfigOf(hist[i].block)) = k}

ModuleKey(n) == <<"m", "o", "d", "u", "l", "e", ".">> \o n

\* The record a module block declares.
ModuleRecordOf(b) ==
    [Name |-> b.labels[1],
     Source |-> IF IsLiteralString(b.attrs.source)
                THEN LiteralString(b.attrs.source) ELSE EmptyStr]

ModuleBlockUniverse ==
    {ModuleBlock(n, << >>, a) : n \in {m1, x}, a \in AttrUniverse}

UnresolvableExprs ==
    {NumExpr(<<"5">>), CallExpr, StrExpr(EmptyStr), StrExpr(<<"5">>),
     StrExpr(<<".", "a">>)}

\* Expressions the resolver reads, with the reference each gives.
ResolvableExprs ==
    {<<TravExpr(aws_east), [LocalName |-> aws, Alias |-> east]>>,
     <<StrExpr(quoted_gcp_east), [LocalName |-> gcp, Alias |-> east]>>,
     <<TravExpr(<<Root(gcp)>>), [LocalName |-> gcp, Alias |-> EmptyStr]>>}

Unresolved(b) ==
    b.attrs.provider.defined /\ b.attrs.provider.expr \in UnresolvableExprs

\* C14: every resource and data block handled has a record at its key; a
\* block whose `provider` does not resolve has, while it is the last
\* declaration of its pair, a record with the zero ProviderRef, and the
\* pass that handled it holds "Invalid provider reference"; handling such a
\* block gives the record with the zero ProviderRef (never the provider
\* inferred from the type) and exactly that diagnostic; a `provider` that
\* resolves gives the resolved reference; only an absent one gives the
\* inferred provider.
C14_UnresolvedProviderIsStored ==
    /\ \A i \in 1..Len(hist) :
          LET b == hist[i].block
          IN /\ b.type = "resource"
                   => /\ PairKey(b.labels) \in DOMAIN mod.Resources
                      /\ (Unresolved(b)
                             /\ i = Max(Declarations("resource", b.labels)))
                            => mod.Resources[PairKey(b.labels)]
                                   = [Type |-> b.labels[1], Name |-> b.labels[2],
                                      Provider |-> ZeroRef]
             /\ b.type = "data"
                   => /\ DataPairKey(b.labels) \in DOMAIN mod.DataSources
                      /\ (Unresolved(b)
                             /\ i = Max(Declarations("data", b.labels)))
                            => mod.DataSources[DataPairKey(b.labels)]
                                   = [Type |-> b.labels[1], Name |-> b.labels[2],
                                      Provider |-> ZeroRef]
             /\ (b.type \in {"resource", "data"} /\ Unresolved(b)
                    /\ i > PassStart)
                   => \E j \in 1..Len(diags) :
                         diags[j] = InvalidProviderReference
    /\ AfterOnePass =>
          \A t \in {vm, aws_vm_x} :
              /\ \A e \in UnresolvableExprs :
                    LET r == HandleResource(mod, ResourceBlock(t, x, << >>, Given(e)))
                        d == HandleData(mod, DataBlock(t, x, << >>, Given(e)))
                    IN /\ r.mod.Resources[PairKey(<<t, x>>)]
                             = [Type |-> t, Name |-> x, Provider |-> ZeroRef]
                       /\ d.mod.DataSources[DataPairKey(<<t, x>>)]
                             = [Type |-> t, Name |-> x, Provider |-> ZeroRef]
                       /\ r.diags = <<InvalidProviderReference>>
                       /\ d.diags = <<InvalidProviderReference>>
              /\ \A p \in ResolvableExprs :
                    LET r == HandleResource(mod, ResourceBlock(t, x, << >>,
                                                               Given(p[1])))
                        d == HandleData(mod, DataBlock(t, x, << >>, Given(p[1])))
                    IN /\ r.mod.Resources[PairKey(<<t, x>>)].Provider = p[2]
                       /\ d.mod.DataSources[DataPairKey(<<t, x>>)].Provider = p[2]
                       /\ r.diags = << >> /\ d.diags = << >>

\* C14 witness: the resource aws_vm_x.x was declared with no provider (so
\* aws was inferred) and the resource vm.x with the provider 5: vm.x is
\* stored with the zero ProviderRef, and the pass holds the diagnostic.
C14_Witness ==
    /\ Len(hist) = 2 /\ idx = 2
    /\ hist[1].block = ResourceBlock(aws_vm_x, x, << >>, Absent)
    /\ hist[2].block = ResourceBlock(vm, x, <<ShapeDiag>>, Given(NumExpr(<<"5">>)))
    /\ mod.Resources[PairKey(<<vm, x>>)].Provider = ZeroRef
    /\ mod.Resources[PairKey(<<aws_vm_x, x>>)].Provider.LocalName = aws
    /\ diags = <<ShapeDiag, InvalidProviderReference>>

(***************************************************************************)
(* Properties of a provider block with one attribute that fails to decode  *)
(* (checked under Spec).                                                   *)
(***************************************************************************)
\* The configs hold, at key k, the entry with this name and alias.
HoldsConfig(configs, k, name, alias) ==
    /\ k \in DOMAIN configs
    /\ configs[k] = [Name |-> name, Alias |-> alias]

MapFields ==
    {"ProviderRequirements", "ProviderConfigs", "Resources", "DataSources",
     "ModuleSources"}

\* C18: in every state the Name of each entry of ProviderConfigs is a key
\* of ProviderRequirements; and every step, of whatever block and pass,
\* leaves in each map of the module every key the map had.
C18_KeysOnlyGrow ==
    /\ [](\A k \in DOMAIN mod.ProviderConfigs :
             mod.ProviderConfigs[k].Name \in DOMAIN PR)
    /\ [][\A f \in MapFields : DOMAIN mod[f] \subseteq DOMAIN mod'[f]]_vars

\* C18 witness: a first pass declared a resource, and a second pass a
\* provider block gcp with no version: the config gcp has its requirement,
\* which only the provider block made, and the resource is still there.
C18_Witness ==
    /\ Len(hist) = 2 /\ idx = 1
    /\ hist[1].block.type = "resource"
    /\ hist[2].block = ProviderBlock(gcp, <<ShapeDiag>>, Absent, Absent)
    /\ DOMAIN mod.ProviderConfigs = {gcp}
    /\ mod.ProviderConfigs[gcp].Name = gcp
    /\ PR = (gcp :> ZeroRequirement)
    /\ DOMAIN mod.Resources # {}

(***************************************************************************)
(* The part of the module each kind of block writes (checked under Spec).  *)
(***************************************************************************)
ModuleFields == MapFields \cup {"RequiredCore"}

WrittenBy(kind) ==
    CASE kind = "resource" -> {"Resources"}
      [] kind = "data" -> {"DataSources"}
      [] kind = "module" -> {"ModuleSources"}
      [] kind = "provider" -> {"ProviderRequirements", "ProviderConfigs"}
      [] kind = "terraform" -> {"RequiredCore", "ProviderRequirements"}

\* C19: a step that handles a block leaves every field of the module but
\* those of the block's kind as it was (a resource block writes Resources
\* alone, a data block DataSources alone, a module block ModuleSources
\* alone, a provider block ProviderRequirements and ProviderConfigs, a
\* terraform block RequiredCore and ProviderRequirements), and a step that
\* handles no block leaves the module as it was; so a pair declared both as
\* a resource and as a data source has both records.
C19_FrameOfEachBlockKind ==
    /\ [][/\ hist' = hist => mod' = mod
          /\ hist' # hist =>
                /\ Len(hist') = Len(hist) + 1
                /\ \A f \in ModuleFields
                               \ WrittenBy(hist'[Len(hist')].block.type) :
                      mod'[f] = mod[f]]_vars
    /\ [](\A l \in DeclaredPairs("resource") \cap DeclaredPairs("data") :
             /\ PairKey(l) \in DOMAIN mod.Resources
             /\ mod.Resources[PairKey(l)].Type = l[1]
             /\ mod.Resources[PairKey(l)].Name = l[2]
             /\ DataPairKey(l) \in DOMAIN mod.DataSources
             /\ mod.DataSources[DataPairKey(l)].Type = l[1]
             /\ mod.DataSources[DataPairKey(l)].Name = l[2]
             /\ Cardinality(DOMAIN mod.Resources)
                   = Cardinality(DeclaredPairs("resource"))
             /\ Cardinality(DOMAIN mod.DataSources)
                   = Cardinality(DeclaredPairs("data")))

\* C19 witness: the data source vm.x with provider gcp.east and then the
\* resource vm.x were declared: both records are there, and there is no
\* requirement, no config, no module call and no core version.
C19_Witness ==
    /\ Len(hist) = 2
    /\ hist[1].block = DataBlock(vm, x, << >>, Given(StrExpr(quoted_gcp_east)))
    /\ hist[2].block.type = "resource" /\ hist[2].block.labels = <<vm, x>>
    /\ DOMAIN mod.Resources = {PairKey(<<vm, x>>)}
    /\ DOMAIN mod.DataSources = {DataPairKey(<<vm, x>>)}
    /\ mod.DataSources[DataPairKey(<<vm, x>>)].Provider
          = [LocalName |-> gcp, Alias |-> east]
    /\ PR = EmptyMap /\ mod.ProviderConfigs = EmptyMap
    /\ mod.ModuleSources = EmptyMap /\ mod.RequiredCore = << >>

(***************************************************************************)
(* Passes over several files (checked under Spec).                         *)
(***************************************************************************)
\* One block handled on the module m: the case of the switch for its type.
HandleEntry(m, e) ==
    CASE e.block.type = "terraform" -> HandleTerraform(m, e.block, e.orders)
      [] e.block.type = "provider" -> HandleProvider(m, e.block)
      [] e.block.type = "data" -> HandleData(m, e.block)
      [] e.block.type = "resource" -> HandleResource(m, e.block)
      [] e.block.type = "module" -> HandleModule(m, e.block)

\* One pass of the loop over the blocks h, from the module m: the module
\* after it and the diagnostics the blocks gave.
RECURSIVE HandleAll(_, _)
HandleAll(m, h) ==
    IF h = << >> THEN Result(m, << >>)
    ELSE LET one == HandleEntry(m, Head(h))
             rest == HandleAll(one.mod, Tail(h))
         IN Result(rest.mod, one.diags \o rest.diags)

Calls == {1, 2}
Other(g) == 3 - g

\* The blocks of the two files: terraform blocks with one
\* required_providers block of one provider, and a provider block.
ConcurrentBlocks ==
    { TerraformBlock(<< >>, Given(StrExpr(c1)),
          <<RequiredProviders((aws :> Req(s1, <<c1>>)), << >>)>>),
      TerraformBlock(<< >>, Absent,
          <<RequiredProviders((aws :> Req(s2, <<c2>>)), << >>)>>),
      ProviderBlock(aws, << >>, Given(StrExpr(c2)), Given(StrExpr(east))) }

\* The one order the range over a one-provider map can run in.
OnlyOrder(b) == CHOOSE o \in OrdersOf(b.inner) : TRUE
EntryOf(b) == [block |-> b, orders |-> OnlyOrder(b)]

\* What was handled before the calls: nothing, a provider block that left
\* aws with no source, or a terraform block that gave aws the source s1.
PriorHistories ==
    { << >>,
      <<EntryOf(ProviderBlock(aws, << >>, Absent, Absent))>>,
      <<EntryOf(TerraformBlock(<< >>, Absent,
            <<RequiredProviders((aws :> Req(s1, <<c1>>)), << >>)>>))>> }

\* The provider a call's block is about, and its requirement.
NameOf(b) ==
    IF b.type = "terraform" THEN CHOOSE n \in DOMAIN b.inner[1].reqs : TRUE
    ELSE b.labels[1]
ReqOf(b) == b.inner[1].reqs[NameOf(b)]

NewCall(b) ==
    [block |-> b, pc |-> "start", exists |-> FALSE, source |-> EmptyStr,
     vc |-> << >>, core |-> << >>, diags |-> << >>]

InFlight(c) == c.pc \notin {"start", "done", "fatal"}

ConcurrentInit ==
    /\ sequenced \in BOOLEAN
    /\ calls \in [Calls -> {NewCall(b) : b \in ConcurrentBlocks}]
    /\ hist \in PriorHistories
    /\ mod = HandleAll(newDecodedModule, hist).mod
    /\ diags = << >>
    /\ pc = "idle"
    /\ blocks = << >>
    /\ contentDiags = << >>
    /\ idx = 0
    /\ ResolverIdle

SetCall(g, c) == calls' = [calls EXCEPT ![g] = c]

\* Lines 64-68: the required_providers block is decoded.
EnterMerge(c) ==
    [c EXCEPT !.diags = @ \o c.block.inner[1].reqsDiags, !.pc = "exists"]

\* Lines 102-106: the version of a provider block is decoded.
AfterEnsure(c) ==
    LET version == c.block.attrs.version
    IN IF version.defined
       THEN [c EXCEPT !.diags = @ \o DecodeExpression(version.expr).diags,
                      !.pc = IF HasErrors(DecodeExpression(version.expr).diags)
                             THEN "config" ELSE "readvc"]
       ELSE [c EXCEPT !.pc = "config"]

\* Line 75
SourceConflictNever(source, reqSource) == FALSE

SourceConflict(source, reqSource) ==
    source # EmptyStr /\ source # reqSource

\* Lines 43-59 and 92-94: the call begins and comes to its block.
Begin(g) ==
    LET c == calls[g]
        b == c.block
        rv == b.attrs.required_version
    IN /\ c.pc = "start"
       /\ sequenced => ~InFlight(calls[Other(g)])
       /\ IF b.type = "terraform"
          THEN IF rv.defined
               THEN LET d == DecodeExpression(rv.expr).diags
                        c1d == [c EXCEPT !.diags = b.shape \o d]
                    IN SetCall(g, IF HasErrors(d) THEN EnterMerge(c1d)
                                  ELSE [c1d EXCEPT !.pc = "readcore"])
               ELSE SetCall(g, EnterMerge([c EXCEPT !.diags = b.shape]))
          ELSE SetCall(g, [c EXCEPT !.diags = b.shape, !.pc = "exists"])
       /\ UNCHANGED <<dispatcherVars, resolverVars, sequenced>>

\* Line 60: mod.RequiredCore is read ...
ReadCore(g) ==
    LET c == calls[g]
    IN /\ c.pc = "readcore"
       /\ SetCall(g, [c EXCEPT !.core = mod.RequiredCore, !.pc = "writecore"])
       /\ UNCHANGED <<dispatcherVars, resolverVars, sequenced>>

\* ... and written.
WriteCore(g) ==
    LET c == calls[g]
        version == DecodeExpression(c.block.attrs.required_version.expr).val
    IN /\ c.pc = "writecore"
       /\ mod' = [mod EXCEPT !.RequiredCore = Append(c.core, version)]
       /\ SetCall(g, EnterMerge(c))
       /\ UNCHANGED <<diags, pc, blocks, contentDiags, idx, hist, resolverVars,
                      sequenced>>

\* Lines 70 and 99: is the name in the requirements?
ReadExists(g) ==
    LET c == calls[g]
        b == c.block
        exists == NameOf(b) \in DOMAIN mod.ProviderRequirements
        c1e == [c EXCEPT !.exists = exists]
    IN /\ c.pc = "exists"
       /\ SetCall(g,
             IF ~exists THEN [c1e EXCEPT !.pc = "insert"]
             ELSE IF b.type = "provider" THEN AfterEnsure(c1e)
             ELSE IF ReqOf(b).Source # EmptyStr
                  THEN [c1e EXCEPT !.pc = "readsource"]
                  ELSE [c1e EXCEPT !.pc = "readvc"])
       /\ UNCHANGED <<dispatcherVars, resolverVars, sequenced>>

\* Lines 71 and 100: the entry is stored.
Insert(g) ==
    LET c == calls[g]
        b == c.block
    IN /\ c.pc = "insert"
       /\ mod' = [mod EXCEPT !.ProviderRequirements =
                     Put(@, NameOf(b),
                         IF b.type = "terraform" THEN ReqOf(b)
                         ELSE ZeroRequirement)]
       /\ SetCall(g, IF b.type = "terraform" THEN [c EXCEPT !.pc = "return"]
                     ELSE AfterEnsure(c))
       /\ UNCHANGED <<diags, pc, blocks, contentDiags, idx, hist, resolverVars,
                      sequenced>>

\* Lines 74-81: the entry's source is read and compared.
ReadSource(g) ==
    LET c == calls[g]
        n == NameOf(c.block)
        source == mod.ProviderRequirements[n].Source
    IN /\ c.pc = "readsource"
       /\ SetCall(g,
             IF SourceConflict(source, ReqOf(c.block).Source)
             THEN [c EXCEPT !.source = source,
                            !.diags = Append(@, MultipleSources(n, source,
                                                    ReqOf(c.block).Source)),
                            !.pc = "readvc"]
             ELSE [c EXCEPT !.source = source, !.pc = "writesource"])
       /\ UNCHANGED <<dispatcherVars, resolverVars, sequenced>>

\* Line 83
WriteSource(g) ==
    LET c == calls[g]
        n == NameOf(c.block)
    IN /\ c.pc = "writesource"
       /\ mod' = [mod EXCEPT !.ProviderRequirements[n].Source =
                                 ReqOf(c.block).Source]
       /\ SetCall(g, [c EXCEPT !.pc = "readvc"])
       /\ UNCHANGED <<diags, pc, blocks, contentDiags, idx, hist, resolverVars,
                      sequenced>>

\* Lines 87 and 107: the entry's constraints are read ...
ReadConstraints(g) ==
    LET c == calls[g]
        n == NameOf(c.block)
    IN /\ c.pc = "readvc"
       /\ SetCall(g, [c EXCEPT
                         !.vc = mod.ProviderRequirements[n].VersionConstraints,
                         !.pc = "writevc"])
       /\ UNCHANGED <<dispatcherVars, resolverVars, sequenced>>

\* ... and written with the call's own appended.
WriteConstraints(g) ==
    LET c == calls[g]
        b == c.block
        n == NameOf(b)
    IN /\ c.pc = "writevc"
       /\ mod' = [mod EXCEPT !.ProviderRequirements[n].VersionConstraints =
                     IF b.type = "terraform"
                     THEN c.vc \o ReqOf(b).VersionConstraints
                     ELSE Append(c.vc,
                                 DecodeExpression(b.attrs.version.expr).val)]
       /\ SetCall(g, [c EXCEPT !.pc = IF b.type = "terraform"
                                      THEN "return" ELSE "config"])
       /\ UNCHANGED <<diags, pc, blocks, contentDiags, idx, hist, resolverVars,
                      sequenced>>

\* Lines 111-124: the config of a provider block is stored.
StoreConfig(g) ==
    LET c == calls[g]
        b == c.block
        name == b.labels[1]
        a == DecodeExpression(b.attrs.alias.expr)
        alias == IF b.attrs.alias.defined THEN a.val ELSE EmptyStr
        providerKey == IF b.attrs.alias.defined /\ ~HasErrors(a.diags)
                          /\ alias # EmptyStr
                       THEN name \o <<".">> \o alias
                       ELSE name
    IN /\ c.pc = "config"
       /\ mod' = [mod EXCEPT !.ProviderConfigs =
                     Put(@, providerKey, [Name |-> name, Alias |-> alias])]
       /\ SetCall(g, [c EXCEPT
                         !.diags = @ \o (IF b.attrs.alias.defined
                                         THEN a.diags ELSE << >>),
                         !.pc = "return"])
       /\ UNCHANGED <<diags, pc, blocks, contentDiags, idx, hist, resolverVars,
                      sequenced>>

\* Line 186
Finish(g) ==
    /\ calls[g].pc = "return"
    /\ SetCall(g, [calls[g] EXCEPT !.pc = "done"])
    /\ UNCHANGED <<dispatcherVars, resolverVars, sequenced>>

\* The positions at which a call is about to read or write the
\* requirements map, and those at which it is about to store a key in it.
AtRequirements == {"exists", "insert", "readsource", "writesource", "readvc",
                   "writevc"}

\* The runtime finds a map being written while the other call uses it
\* ("concurrent map writes", "concurrent map read and map write").
RaceDetected ==
    /\ \E g \in Calls :
          \/ /\ calls[g].pc = "insert"
             /\ calls[Other(g)].pc \in AtRequirements
          \/ /\ calls[g].pc = "config"
             /\ calls[Other(g)].pc = "config"
    /\ calls' = [g \in Calls |-> [calls[g] EXCEPT !.pc = "fatal"]]
    /\ UNCHANGED <<dispatcherVars, resolverVars, sequenced>>

CallBegins == \E g \in Calls : Begin(g)
CoreRead == \E g \in Calls : ReadCore(g)
CoreWritten == \E g \in Calls : WriteCore(g)
ExistsRead == \E g \in Calls : ReadExists(g)
EntryInserted == \E g \in Calls : Insert(g)
SourceRead == \E g \in Calls : ReadSource(g)
SourceWritten == \E g \in Calls : WriteSource(g)
ConstraintsRead == \E g \in Calls : ReadConstraints(g)
ConstraintsWritten == \E g \in Calls : WriteConstraints(g)
ConfigStored == \E g \in Calls : StoreConfig(g)
CallReturns == \E g \in Calls : Finish(g)

ConcurrentNext ==
    \/ CallBegins
    \/ CoreRead
    \/ CoreWritten
    \/ ExistsRead
    \/ EntryInserted
    \/ SourceRead
    \/ SourceWritten
    \/ ConstraintsRead
    \/ ConstraintsWritten
    \/ ConfigStored
    \/ CallReturns
    \/ RaceDetected

ConcurrentSpec == ConcurrentInit /\ [][ConcurrentNext]_vars

(***************************************************************************)
(* Properties of two calls on one module (checked under ConcurrentSpec).   *)
(***************************************************************************)
BothReturned == \A g \in Calls : calls[g].pc = "done"

\* The module and each call's diagnostics.
Outcome == [mod |-> mod, diags |-> [g \in Calls |-> calls[g].diags]]

\* What the two calls give when `first` runs wholly before the other.
InOrder(first) ==
    LET start == HandleAll(newDecodedModule, hist).mod
        one == HandleEntry(start, EntryOf(calls[first].block))
        two == HandleEntry(one.mod, EntryOf(calls[Other(first)].block))
    IN [mod |-> two.mod,
        diags |-> [g \in Calls |-> IF g = first THEN one.diags ELSE two.diags]]

SequentialOutcomes == {InOrder(first) : first \in Calls}

\* The constraints the two calls declare for aws.
ConstraintsOfCalls ==
    UNION {Range(ConstraintsOf(calls[g].block, aws)) : g \in Calls}

\* C16: when the caller sequences the two calls, at most one call is under
\* way at a time, the runtime never ends the program, and once both have
\* returned the module and each call's diagnostics are those of one of the
\* two orders of running the calls one after the other; so an outcome that
\* no order gives (lost constraints, two sources taken with no diagnostic)
\* comes from unsequenced calls alone.
C16_SequencedCallsAreSequential ==
    /\ sequenced =>
          /\ \A g \in Calls : calls[g].pc # "fatal"
          /\ ~(InFlight(calls[1]) /\ InFlight(calls[2]))
          /\ BothReturned => Outcome \in SequentialOutcomes
    /\ (BothReturned /\ Outcome \notin SequentialOutcomes) => ~sequenced

\* C16 witness: on a new module two unsequenced calls, one declaring aws
\* with source s1 and constraint c1 and one with source s2 and constraint
\* c2, both found aws absent and both inserted: the second insert replaced
\* the first, c1 is lost, neither call holds a conflict diagnostic, and no
\* order of the two calls gives this.
C16_Witness ==
    /\ ~sequenced /\ BothReturned /\ hist = << >>
    /\ calls[1].block.type = "terraform" /\ calls[2].block.type = "terraform"
    /\ ReqOf(calls[1].block) = Req(s1, <<c1>>)
    /\ ReqOf(calls[2].block) = Req(s2, <<c2>>)
    /\ ~calls[1].exists /\ ~calls[2].exists
    /\ PR[aws] = Req(s2, <<c2>>)
    /\ c1 \in ConstraintsOfCalls \ Range(PR[aws].VersionConstraints)
    /\ \A g \in Calls : MultipleSourceDiags(calls[g].diags, aws) = {}
    /\ Outcome \notin SequentialOutcomes

====
